---- MODULE Spec2Model ----
(***************************************************************************)
(* Model of the version-range diff engine of APWM (src/src/diff.rs):       *)
(* VersionRange (de)serialization, find_closest_version, diff_dir,         *)
(* diff_version, diff_world and diff_world_and_write.                      *)
(*                                                                         *)
(* Conventions                                                             *)
(*   Option<T>    : <<>> is None, <<x>> is Some(x)                         *)
(*   Version      : [major, minor, patch, pre]; pre is the pre-release     *)
(*                  identifier as a sequence of characters (<<>> = none)   *)
(*   text of a range / version : a sequence of one-character strings, so   *)
(*                  that splitting and parsing are computed, not assumed   *)
(*   file content : a sequence of lines (strings), or Binary               *)
(*   tree         : a function from relative file paths to file contents   *)
(*   diff text    : a TLA+ string, built by concatenation                  *)
(***************************************************************************)
EXTENDS Integers, Sequences, FiniteSets, TLC

VARIABLES
    op,                 \* entry point exercised: "build", "serde", "closest", "diff_dir"
    \* ---- diff_world_and_write / diff_world / diff_version ----
    from,               \* Option<World>: the old world
    to,                 \* Option<World>: the new world
    inserted,           \* order in which the new world's versions were inserted
    pc,                 \* position of the build
    branch,             \* match arm taken by diff_world
    pending,            \* versions the running `for` loop has not visited yet
    previous_version,   \* Option<Version>: predecessor of the current transition
    version,            \* Option<Version>: target of the current transition
    candidate_versions, \* Vec pushed to by the Changed arm
    diffs,              \* result.diffs : VersionRange -> Diff
    tmpdirs,            \* temporary directories that exist: id -> tree
    created,            \* every temporary directory ever created: id -> transition number
    transition,         \* number of diff_version calls started
    from_tmpdir,        \* Option<id> held by the running diff_version
    to_tmpdir,          \* Option<id> held by the running diff_version
    diff,               \* Option<String>: text computed by diff_dir
    extracted,          \* log of extract_to calls
    built,              \* Option<Result<CombinedDiff>> returned by diff_world
    ret,                \* Option<Result<()>> returned by diff_world_and_write
    destination,        \* Option<directory>: file name -> serialized bytes
    \* ---- VersionRange serde ----
    range,              \* Option<VersionRange> to serialize
    text,               \* Option<text> to deserialize
    parsed,             \* Option<Result<VersionRange>> of the deserialization
    \* ---- find_closest_version ----
    fc_target, fc_versions, fc_result,
    \* ---- diff_dir ----
    dd_from, dd_to, dd_out,
    dd_log              \* the iterations of the loop of the last diff_dir run

vars == <<op, from, to, inserted, pc, branch, pending, previous_version, version,
          candidate_versions, diffs, tmpdirs, created, transition, from_tmpdir,
          to_tmpdir, diff, extracted, built, ret, destination,
          range, text, parsed, fc_target, fc_versions, fc_result,
          dd_from, dd_to, dd_out, dd_log>>

buildVars == <<from, to, inserted, pc, branch, pending, previous_version, version,
               candidate_versions, diffs, tmpdirs, created, transition, from_tmpdir,
               to_tmpdir, diff, extracted, built, ret, destination>>
\* what diff_world and diff_version write
diffWorldVars == <<branch, pending, previous_version, version, candidate_versions, diffs,
                   tmpdirs, created, transition, from_tmpdir, to_tmpdir, diff, extracted,
                   built>>
serdeVars == <<range, text, parsed>>
closestVars == <<fc_target, fc_versions, fc_result>>
dirVars == <<dd_from, dd_to, dd_out, dd_log>>
\* what no step of a build writes
otherVars == <<op, from, to, inserted, serdeVars, closestVars, dirVars>>

(***************************************************************************)
(* Bounds                                                                  *)
(***************************************************************************)
MaxVersions == 3    \* versions per world
MaxRuns == 2        \* diff_dir runs on one pair of trees

None == <<>>
Some(x) == <<x>>
IsSome(o) == o # <<>>
Unwrap(o) == o[1]

(***************************************************************************)
(* semver::Version                                                         *)
(***************************************************************************)
V(ma, mi, pa, pre) == [major |-> ma, minor |-> mi, patch |-> pa, pre |-> pre]

\* The versions the worlds of the model are drawn from.  0.0.10 sorts after
\* 0.0.2 as a version and before it as a string; 0.1.0-a sorts before 0.1.0.
Versions ==
    { V(0, 0, 1, <<>>), V(0, 0, 2, <<>>), V(0, 0, 10, <<>>),
      V(0, 1, 0, <<"a">>), V(0, 1, 0, <<>>) }

Digits == <<"0", "1", "2", "3", "4", "5", "6", "7", "8", "9">>
Letters == <<"a", "b">>

IsDigit(c) == \E i \in 1..Len(Digits) : Digits[i] = c
IsLetter(c) == \E i \in 1..Len(Letters) : Letters[i] = c
DigitVal(c) == (CHOOSE i \in 1..Len(Digits) : Digits[i] = c) - 1
CharRank(c) ==
    IF IsDigit(c) THEN DigitVal(c)
    ELSE IF IsLetter(c) THEN 100 + (CHOOSE i \in 1..Len(Letters) : Letters[i] = c)
    ELSE 200

RECURSIVE LexLess(_, _)
LexLess(a, b) ==
    IF b = <<>> THEN FALSE
    ELSE IF a = <<>> THEN TRUE
    ELSE IF Head(a) = Head(b) THEN LexLess(Tail(a), Tail(b))
    ELSE CharRank(Head(a)) < CharRank(Head(b))

\* Prerelease ordering: a version without pre-release is greater than the
\* same version with one; two pre-releases compare by their identifier.
PreLess(p, q) ==
    IF p = <<>> THEN FALSE
    ELSE IF q = <<>> THEN TRUE
    ELSE LexLess(p, q)

\* `a < b` on Version
VersionLess(a, b) ==
    IF a.major # b.major THEN a.major < b.major
    ELSE IF a.minor # b.minor THEN a.minor < b.minor
    ELSE IF a.patch # b.patch THEN a.patch < b.patch
    ELSE PreLess(a.pre, b.pre)

RECURSIVE DecStr(_)
DecStr(n) ==
    IF n < 10 THEN <<Digits[n + 1]>>
    ELSE DecStr(n \div 10) \o <<Digits[(n % 10) + 1]>>

\* Version::to_string that prints major.minor.patch only.
VersionToStringNoPre(v) ==
    DecStr(v.major) \o <<".">> \o DecStr(v.minor) \o <<".">> \o DecStr(v.patch)

\* Version::to_string
VersionToString(v) ==
    DecStr(v.major) \o <<".">> \o DecStr(v.minor) \o <<".">> \o DecStr(v.patch)
        \o (IF v.pre = <<>> THEN <<>> ELSE <<"-">> \o v.pre)

\* Length of the longest prefix of s made of digits.
RECURSIVE DigitRun(_)
DigitRun(s) ==
    IF s = <<>> \/ ~IsDigit(Head(s)) THEN 0 ELSE 1 + DigitRun(Tail(s))

RECURSIVE DecVal(_, _)
DecVal(s, acc) ==
    IF s = <<>> THEN acc ELSE DecVal(Tail(s), 10 * acc + DigitVal(Head(s)))

\* A numeric identifier at the head of s: [ok, val, rest]; no leading zero.
ParseNumeric(s) ==
    LET n == DigitRun(s) IN
    IF n = 0 \/ (n > 1 /\ s[1] = "0")
    THEN [ok |-> FALSE, val |-> 0, rest |-> s]
    ELSE [ok |-> TRUE, val |-> DecVal(SubSeq(s, 1, n), 0), rest |-> SubSeq(s, n + 1, Len(s))]

\* A pre-release: non-empty dot-separated identifiers of digits, letters, '-'.
RECURSIVE PreOk(_, _)
PreOk(s, identLen) ==
    IF s = <<>> THEN identLen > 0
    ELSE IF Head(s) = "." THEN identLen > 0 /\ PreOk(Tail(s), 0)
    ELSE (IsDigit(Head(s)) \/ IsLetter(Head(s)) \/ Head(s) = "-")
            /\ PreOk(Tail(s), identLen + 1)

Err(kind) == [ok |-> FALSE, err |-> kind]
Ok(x) == [ok |-> TRUE, value |-> x]

\* Version::from_str
VersionFromStr(s) ==
    LET ma == ParseNumeric(s) IN
    IF ~ma.ok \/ ma.rest = <<>> \/ Head(ma.rest) # "." THEN Err("semver") ELSE
    LET mi == ParseNumeric(Tail(ma.rest)) IN
    IF ~mi.ok \/ mi.rest = <<>> \/ Head(mi.rest) # "." THEN Err("semver") ELSE
    LET pa == ParseNumeric(Tail(mi.rest)) IN
    IF ~pa.ok THEN Err("semver")
    ELSE IF pa.rest = <<>> THEN Ok(V(ma.val, mi.val, pa.val, <<>>))
    ELSE IF Head(pa.rest) = "-" /\ PreOk(Tail(pa.rest), 0)
         THEN Ok(V(ma.val, mi.val, pa.val, Tail(pa.rest)))
    ELSE Err("semver")

(***************************************************************************)
(* VersionRange(Option<Version>, Option<Version>) and its serde impls      *)
(***************************************************************************)
VersionRange(v0, v1) == <<v0, v1>>

Separator == <<".", ".", ".">>

\* self.N.as_ref().map(|v| v.to_string()).unwrap_or_default()
SideToString(o) == IF IsSome(o) THEN VersionToString(Unwrap(o)) ELSE <<>>

\* impl Serialize for VersionRange: format!("{}...{}", v0, v1)
Serialize(r) == SideToString(r[1]) \o Separator \o SideToString(r[2])

StartsWith(s, p) == Len(s) >= Len(p) /\ SubSeq(s, 1, Len(p)) = p

\* str::split("..."): leftmost non-overlapping matches, empty parts kept.
RECURSIVE SplitFrom(_, _)
SplitFrom(s, cur) ==
    IF s = <<>> THEN <<cur>>
    ELSE IF StartsWith(s, Separator)
         THEN <<cur>> \o SplitFrom(SubSeq(s, Len(Separator) + 1, Len(s)), <<>>)
    ELSE SplitFrom(Tail(s), Append(cur, Head(s)))

Split(s) == SplitFrom(s, <<>>)

\* (!part.is_empty()).then(|| Version::from_str(part)).transpose()
SideFromStr(part) ==
    IF part = <<>> THEN Ok(None)
    ELSE LET v == VersionFromStr(part) IN
         IF v.ok THEN Ok(Some(v.value)) ELSE v

\* impl Deserialize for VersionRange
Deserialize(s) ==
    LET parts == Split(s) IN
    IF Len(parts) # 2 THEN Err("expected {from}...{to}")
    ELSE LET v0 == SideFromStr(parts[1]) IN
         IF ~v0.ok THEN v0
         ELSE LET v1 == SideFromStr(parts[2]) IN
              IF ~v1.ok THEN v1
              ELSE Ok(VersionRange(v0.value, v1.value))

(***************************************************************************)
(* find_closest_version                                                    *)
(***************************************************************************)
SetOf(s) == { s[i] : i \in 1..Len(s) }

\* The least version of a non-empty set.
MinVersion(S) == CHOOSE m \in S : \A x \in S : x = m \/ VersionLess(m, x)

\* Ascending sequence of the elements of a set: BTreeMap::keys().
RECURSIVE Ascending(_)
Ascending(S) ==
    IF S = {} THEN <<>>
    ELSE LET m == MinVersion(S) IN <<m>> \o Ascending(S \ {m})

\* Insertion of x into an ascending sequence, after its equals (stable).
RECURSIVE InsertSorted(_, _)
InsertSorted(s, x) ==
    IF s = <<>> THEN <<x>>
    ELSE IF VersionLess(x, Head(s)) THEN <<x>> \o s
    ELSE <<Head(s)>> \o InsertSorted(Tail(s), x)

\* versions.sort()
RECURSIVE Sort(_)
Sort(s) ==
    IF s = <<>> THEN <<>>
    ELSE InsertSorted(Sort(SubSeq(s, 1, Len(s) - 1)), s[Len(s)])

\* Scan with `<=` in place of `<`.
RECURSIVE ScanInclusive(_, _, _)
ScanInclusive(target_version, versions, candidate_version) ==
    IF versions = <<>> THEN candidate_version
    ELSE IF VersionLess(Head(versions), target_version) \/ Head(versions) = target_version
         THEN ScanInclusive(target_version, Tail(versions), Some(Head(versions)))
    ELSE candidate_version

\* The scan of the sorted candidates: keep the last one below the target,
\* break at the first that is not.
RECURSIVE Scan(_, _, _)
Scan(target_version, versions, candidate_version) ==
    IF versions = <<>> THEN candidate_version
    ELSE IF VersionLess(Head(versions), target_version)
         THEN Scan(target_version, Tail(versions), Some(Head(versions)))
    ELSE candidate_version

\* The first candidate below the target in place of the last one.
find_first_version(target_version, versions) ==
    LET sorted == Sort(versions) IN
    IF sorted # <<>> /\ VersionLess(sorted[1], target_version) THEN Some(sorted[1]) ELSE None

find_closest_version(target_version, versions) ==
    Scan(target_version, Sort(versions), None)

(***************************************************************************)
(* diff_dir                                                                *)
(***************************************************************************)
\* File contents: valid UTF-8 text as its lines, or bytes that are no text.
TextFile(lines) == [utf8 |-> TRUE, lines |-> lines]
BinaryFile == [utf8 |-> FALSE, lines |-> <<>>]

EmptyTree == [p \in {} |-> BinaryFile]

\* std::fs::read_to_string(path).unwrap_or_else(|_| "".to_string()), as lines
ReadToString(tree, file) ==
    IF file \in DOMAIN tree /\ tree[file].utf8 THEN tree[file].lines ELSE <<>>

\* Path::is_file
IsFile(tree, file) == file \in DOMAIN tree

RECURSIVE LcsLen(_, _)
LcsLen(a, b) ==
    IF a = <<>> \/ b = <<>> THEN 0
    ELSE IF Head(a) = Head(b) THEN 1 + LcsLen(Tail(a), Tail(b))
    ELSE LET x == LcsLen(Tail(a), b)
             y == LcsLen(a, Tail(b))
         IN IF x >= y THEN x ELSE y

\* similar::TextDiff::from_lines: a shortest edit script, deletions first.
RECURSIVE LineOps(_, _)
LineOps(a, b) ==
    IF a = <<>> THEN [i \in 1..Len(b) |-> [tag |-> "+", line |-> b[i]]]
    ELSE IF b = <<>> THEN [i \in 1..Len(a) |-> [tag |-> "-", line |-> a[i]]]
    ELSE IF Head(a) = Head(b)
         THEN <<[tag |-> " ", line |-> Head(a)]>> \o LineOps(Tail(a), Tail(b))
    ELSE IF LcsLen(Tail(a), b) >= LcsLen(a, Tail(b))
         THEN <<[tag |-> "-", line |-> Head(a)]>> \o LineOps(Tail(a), b)
    ELSE <<[tag |-> "+", line |-> Head(b)]>> \o LineOps(a, Tail(b))

RECURSIVE Flatten(_)
Flatten(cs) == IF cs = <<>> THEN "" ELSE Head(cs) \o Flatten(Tail(cs))

\* A hunk range "start,len": the length is left out when it is 1, and an
\* empty range starts at the line before it.
HunkRange(len) ==
    IF len = 1 THEN "1"
    ELSE IF len = 0 THEN "0,0"
    ELSE "1," \o Flatten(DecStr(len))

RECURSIVE HunkLines(_)
HunkLines(ops) ==
    IF ops = <<>> THEN ""
    ELSE Head(ops).tag \o Head(ops).line \o "\n" \o HunkLines(Tail(ops))

\* format!("{}", udiff) after udiff.header(from, to): nothing when the two
\* contents are equal; otherwise the header and the hunk.  The files of the
\* model are shorter than the context radius, so one hunk holds every line.
UnifiedDiff(from_value, to_value, from_label, to_label) ==
    LET ops == LineOps(from_value, to_value) IN
    IF \A i \in 1..Len(ops) : ops[i].tag = " " THEN ""
    ELSE "--- " \o from_label \o "\n" \o "+++ " \o to_label \o "\n"
         \o "@@ -" \o HunkRange(Len(from_value)) \o " +" \o HunkRange(Len(to_value))
         \o " @@\n" \o HunkLines(ops)

DevNull == "/dev/null"

\* A header label that names the file whether or not the side has it.
HeaderLabelAlwaysPath(dir, file) == file

\* The label of one side of the header: the relative path of the file when
\* the side has it, /dev/null when it has not.
HeaderLabel(dir, file) == IF IsFile(dir, file) THEN file ELSE DevNull

\* One iteration of the loop over combined_paths.
FileDiff(from_dir, to_dir, file) ==
    UnifiedDiff(ReadToString(from_dir, file), ReadToString(to_dir, file),
                HeaderLabel(from_dir, file), HeaderLabel(to_dir, file))

\* The files of both trees: a HashSet of relative paths.
CombinedPaths(from_dir, to_dir) == DOMAIN from_dir \cup DOMAIN to_dir

\* The orders in which a HashSet may hand out its elements.
Orders(S) ==
    { o \in [1..Cardinality(S) -> S] : \A i, j \in DOMAIN o : i # j => o[i] # o[j] }

RECURSIVE ConcatDiffs(_, _, _)
ConcatDiffs(from_dir, to_dir, order) ==
    IF order = <<>> THEN ""
    ELSE FileDiff(from_dir, to_dir, Head(order))
            \o ConcatDiffs(from_dir, to_dir, Tail(order))

\* What each iteration of the loop handled: the file, the two labels given to
\* udiff.header and the text appended to the result.
LoopLog(from_dir, to_dir, order) ==
    [i \in 1..Len(order) |->
        [file |-> order[i],
         from |-> HeaderLabel(from_dir, order[i]),
         to |-> HeaderLabel(to_dir, order[i]),
         text |-> FileDiff(from_dir, to_dir, order[i])]]

\* The results diff_dir may return for a pair of trees, one per iteration
\* order of combined_paths.
diff_dir(from_dir, to_dir) ==
    { ConcatDiffs(from_dir, to_dir, order) : order \in Orders(CombinedPaths(from_dir, to_dir)) }

(***************************************************************************)
(* World                                                                   *)
(***************************************************************************)
VersionFile == "VERSION"
ReadmeFile == "README"

\* The content a version's origin holds: the file VERSION with the version
\* string, as the archives of the tests; every version but 0.0.1 also ships
\* a README that names its major.minor line.
OriginTree(v) ==
    LET vfile == TextFile(<<Flatten(VersionToString(v))>>)
        readme == TextFile(<<"readme", Flatten(DecStr(v.major) \o <<".">> \o DecStr(v.minor))>>)
    IN IF v = V(0, 0, 1, <<>>)
       THEN [p \in {VersionFile} |-> vfile]
       ELSE [p \in {VersionFile, ReadmeFile} |-> IF p = VersionFile THEN vfile ELSE readme]

\* BTreeMap::insert of every version of a sequence, in that order.
RECURSIVE FromInserts(_)
FromInserts(s) ==
    IF s = <<>> THEN [v \in {} |-> EmptyTree]
    ELSE LET m == FromInserts(SubSeq(s, 1, Len(s) - 1))
             k == s[Len(s)]
         IN [v \in DOMAIN m \cup {k} |-> IF v = k THEN OriginTree(k) ELSE m[v]]

World(insertions) == [stem |-> "foobar", versions |-> FromInserts(insertions)]

\* The keys handed out from the greatest to the least.
KeysDescending(world) ==
    LET asc == Ascending(DOMAIN world.versions) IN
    [i \in 1..Len(asc) |-> asc[Len(asc) + 1 - i]]

\* versions.keys(): ascending
Keys(world) == Ascending(DOMAIN world.versions)

\* world.extract_to(version, dir): the tree the directory holds afterwards,
\* or a failure; a version the world does not know cannot be materialized.
ExtractTo(world, v) ==
    IF v \in DOMAIN world.versions
    THEN {Ok(world.versions[v]), Err("extract_to")}
    ELSE {Err("extract_to")}

\* Sequences without repetition of at most n versions.
InsertionSeqs(n) ==
    UNION { { s \in [1..k -> Versions] : \A i, j \in 1..k : i # j => s[i] # s[j] }
            : k \in 0..n }

(***************************************************************************)
(* diff_world, diff_version, diff_world_and_write                          *)
(***************************************************************************)
VersionAdded(s) == [tag |-> "VersionAdded", text |-> s]
VersionRemoved == [tag |-> "VersionRemoved"]

EmptyDiffs == [k \in {} |-> VersionRemoved]

\* BTreeMap::insert
Insert(m, k, x) == [y \in DOMAIN m \cup {k} |-> IF y = k THEN x ELSE m[y]]

CombinedDiff(world, d) == [world_name |-> world.stem, diffs |-> d]

\* InsertRemoved with the endpoints of the key swapped.
RECURSIVE InsertRemovedSwapped(_, _, _)
InsertRemovedSwapped(d, keys, keep) ==
    IF keys = <<>> THEN d
    ELSE InsertRemovedSwapped(
            IF Head(keys) \in keep THEN d
            ELSE Insert(d, VersionRange(None, Some(Head(keys))), VersionRemoved),
            Tail(keys), keep)

\* The loop over old_world.versions.keys() that records the removed versions
\* which `keep` does not hold.
RECURSIVE InsertRemoved(_, _, _)
InsertRemoved(d, keys, keep) ==
    IF keys = <<>> THEN d
    ELSE InsertRemoved(
            IF Head(keys) \in keep THEN d
            ELSE Insert(d, VersionRange(Some(Head(keys)), None), VersionRemoved),
            Tail(keys), keep)

\* serde_json of a CombinedDiff: the keys of diffs in their textual form.
ToJson(cd) ==
    [world_name |-> cd.world_name,
     diffs |-> { <<Serialize(k), cd.diffs[k]>> : k \in DOMAIN cd.diffs }]

ApdiffName(world_name) == world_name \o ".apdiff"
EmptyDir == [f \in {} |-> ToJson([world_name |-> "", diffs |-> EmptyDiffs])]

idle ==
    /\ from = None /\ to = None /\ inserted = <<>>
    /\ pc = "none" /\ branch = "none" /\ pending = <<>>
    /\ previous_version = None /\ version = None /\ candidate_versions = <<>>
    /\ diffs = EmptyDiffs /\ tmpdirs = <<>> /\ created = <<>> /\ transition = 0
    /\ from_tmpdir = None /\ to_tmpdir = None /\ diff = None /\ extracted = <<>>
    /\ built = None /\ ret = None /\ destination = None

\* A drop that leaves the directories on disk.
DropNothing(dirs, ids) == dirs

\* TempDir::drop: the directories of `ids` cease to exist.
Drop(dirs, ids) == [d \in DOMAIN dirs \ ids |-> dirs[d]]

\* The directories the running diff_version owns.
Owned == SetOf(from_tmpdir) \cup SetOf(to_tmpdir)

old_world == Unwrap(from)
new_world == Unwrap(to)

\* The from_world argument of the running diff_version call.
from_world == IF branch = "added" THEN new_world ELSE old_world
\* The to_world argument of the running diff_version call.
to_world == new_world

\* An error that hands back the entries computed so far.
AbortPartial(kind) ==
    /\ tmpdirs' = [d \in DOMAIN tmpdirs \ (SetOf(from_tmpdir) \cup SetOf(to_tmpdir)) |-> tmpdirs[d]]
    /\ from_tmpdir' = None /\ to_tmpdir' = None
    /\ built' = Some(Ok([world_name |-> Unwrap(to).stem, diffs |-> diffs]))
    /\ pc' = "built"

\* An error leaves diff_version and, through `?`, diff_world: the temporary
\* directories are dropped and no CombinedDiff is returned.
Abort(kind) ==
    /\ tmpdirs' = Drop(tmpdirs, Owned)
    /\ from_tmpdir' = None /\ to_tmpdir' = None
    /\ built' = Some(Err(kind))
    /\ pc' = "built"

\* (None, None) answered with an empty record.
MatchNoneEmpty ==
    /\ pc = "start" /\ from = None /\ to = None
    /\ built' = Some(Ok([world_name |-> "", diffs |-> EmptyDiffs]))
    /\ pc' = "built"
    /\ UNCHANGED <<branch, pending, previous_version, version, candidate_versions, diffs,
                   tmpdirs, created, transition, from_tmpdir, to_tmpdir, diff, extracted>>
    /\ UNCHANGED <<ret, destination, otherVars>>

\* (None, None) => bail!
MatchNone ==
    /\ pc = "start" /\ from = None /\ to = None
    /\ built' = Some(Err("InvalidInput"))
    /\ pc' = "built"
    /\ UNCHANGED <<branch, pending, previous_version, version, candidate_versions, diffs,
                   tmpdirs, created, transition, from_tmpdir, to_tmpdir, diff, extracted>>
    /\ UNCHANGED <<ret, destination, otherVars>>

\* The Added arm walking the versions in the order they were inserted.
MatchAddedInsertionOrder ==
    /\ pc = "start" /\ from = None /\ to # None
    /\ branch' = "added"
    /\ previous_version' = None
    /\ diffs' = EmptyDiffs
    /\ pending' = inserted
    /\ pc' = "added_loop"
    /\ UNCHANGED <<version, candidate_versions, tmpdirs, created, transition,
                   from_tmpdir, to_tmpdir, diff, extracted, built>>
    /\ UNCHANGED <<ret, destination, otherVars>>

\* (None, Some(new_world)): up to the `for`
MatchAdded ==
    /\ pc = "start" /\ from = None /\ to # None
    /\ branch' = "added"
    /\ previous_version' = None
    /\ diffs' = EmptyDiffs
    /\ pending' = Keys(new_world)
    /\ pc' = "added_loop"
    /\ UNCHANGED <<version, candidate_versions, tmpdirs, created, transition,
                   from_tmpdir, to_tmpdir, diff, extracted, built>>
    /\ UNCHANGED <<ret, destination, otherVars>>

\* (Some(old_world), None): the whole arm
MatchRemoved ==
    /\ pc = "start" /\ from # None /\ to = None
    /\ branch' = "removed"
    /\ diffs' = InsertRemoved(EmptyDiffs, Keys(old_world), {})
    /\ built' = Some(Ok(CombinedDiff(old_world, diffs')))
    /\ pc' = "built"
    /\ UNCHANGED <<pending, previous_version, version, candidate_versions, tmpdirs,
                   created, transition, from_tmpdir, to_tmpdir, diff, extracted>>
    /\ UNCHANGED <<ret, destination, otherVars>>

\* (Some(old_world), Some(new_world)): up to the first `for`
MatchChanged ==
    /\ pc = "start" /\ from # None /\ to # None
    /\ branch' = "changed"
    /\ diffs' = EmptyDiffs
    /\ candidate_versions' = Keys(old_world)
    /\ pending' = Keys(new_world)
    /\ pc' = "changed_loop"
    /\ UNCHANGED <<previous_version, version, tmpdirs, created, transition,
                   from_tmpdir, to_tmpdir, diff, extracted, built>>
    /\ UNCHANGED <<ret, destination, otherVars>>

\* Added arm: the loop takes the next version and calls diff_version.
AddedNext ==
    /\ pc = "added_loop" /\ pending # <<>>
    /\ version' = Some(Head(pending))
    /\ pending' = Tail(pending)
    /\ transition' = transition + 1
    /\ pc' = "dv_from_tmpdir"
    /\ UNCHANGED <<branch, previous_version, candidate_versions, diffs, tmpdirs, created,
                   from_tmpdir, to_tmpdir, diff, extracted, built>>
    /\ UNCHANGED <<ret, destination, otherVars>>

\* Added arm: the loop is over, Ok(result).
AddedDone ==
    /\ pc = "added_loop" /\ pending = <<>>
    /\ built' = Some(Ok(CombinedDiff(new_world, diffs)))
    /\ pc' = "built"
    /\ UNCHANGED <<branch, pending, previous_version, version, candidate_versions, diffs,
                   tmpdirs, created, transition, from_tmpdir, to_tmpdir, diff, extracted>>
    /\ UNCHANGED <<ret, destination, otherVars>>

\* Changed arm: a version the old world has too is skipped.
ChangedSkip ==
    /\ pc = "changed_loop" /\ pending # <<>>
    /\ Head(pending) \in DOMAIN old_world.versions
    /\ pending' = Tail(pending)
    /\ UNCHANGED <<branch, pc, previous_version, version, candidate_versions, diffs, tmpdirs,
                   created, transition, from_tmpdir, to_tmpdir, diff, extracted, built>>
    /\ UNCHANGED <<ret, destination, otherVars>>

\* The Changed arm resolving the predecessor among candidate_versions, which
\* also holds the versions of the new world added so far.
ChangedNextFromCandidates ==
    /\ pc = "changed_loop" /\ pending # <<>>
    /\ Head(pending) \notin DOMAIN old_world.versions
    /\ version' = Some(Head(pending))
    /\ pending' = Tail(pending)
    /\ previous_version' = find_closest_version(Head(pending), candidate_versions)
    /\ transition' = transition + 1
    /\ pc' = "dv_from_tmpdir"
    /\ UNCHANGED <<branch, candidate_versions, diffs, tmpdirs, created,
                   from_tmpdir, to_tmpdir, diff, extracted, built>>
    /\ UNCHANGED <<ret, destination, otherVars>>

\* Changed arm: a new version is diffed against its closest old version.
ChangedNext ==
    /\ pc = "changed_loop" /\ pending # <<>>
    /\ Head(pending) \notin DOMAIN old_world.versions
    /\ version' = Some(Head(pending))
    /\ pending' = Tail(pending)
    /\ previous_version' = find_closest_version(Head(pending), Keys(old_world))
    /\ transition' = transition + 1
    /\ pc' = "dv_from_tmpdir"
    /\ UNCHANGED <<branch, candidate_versions, diffs, tmpdirs, created,
                   from_tmpdir, to_tmpdir, diff, extracted, built>>
    /\ UNCHANGED <<ret, destination, otherVars>>

\* Changed arm: the second loop records the removed versions, Ok(result).
ChangedDone ==
    /\ pc = "changed_loop" /\ pending = <<>>
    /\ diffs' = InsertRemoved(diffs, Keys(old_world), DOMAIN new_world.versions)
    /\ built' = Some(Ok(CombinedDiff(new_world, diffs')))
    /\ pc' = "built"
    /\ UNCHANGED <<branch, pending, previous_version, version, candidate_versions,
                   tmpdirs, created, transition, from_tmpdir, to_tmpdir, diff, extracted>>
    /\ UNCHANGED <<ret, destination, otherVars>>

\* tempdir()?: a fresh directory, or an I/O error.
NewTmpdir(side) ==
    LET id == Len(created) + 1 IN
    /\ created' = Append(created, [transition |-> transition, side |-> side])
    /\ tmpdirs' = Insert(tmpdirs, id, EmptyTree)
    /\ IF side = "from"
       THEN from_tmpdir' = Some(id) /\ UNCHANGED to_tmpdir
       ELSE to_tmpdir' = Some(id) /\ UNCHANGED from_tmpdir

\* let from_tmpdir = tempdir()?;
DvFromTmpdir ==
    /\ pc = "dv_from_tmpdir"
    /\ \/ NewTmpdir("from") /\ pc' = "dv_to_tmpdir" /\ UNCHANGED built
       \/ Abort("tempdir") /\ UNCHANGED created
    /\ UNCHANGED <<branch, pending, previous_version, version, candidate_versions, diffs,
                   transition, diff, extracted>>
    /\ UNCHANGED <<ret, destination, otherVars>>

\* let to_tmpdir = tempdir()?;
DvToTmpdir ==
    /\ pc = "dv_to_tmpdir"
    /\ \/ NewTmpdir("to") /\ pc' = "dv_extract_from" /\ UNCHANGED built
       \/ Abort("tempdir") /\ UNCHANGED created
    /\ UNCHANGED <<branch, pending, previous_version, version, candidate_versions, diffs,
                   transition, diff, extracted>>
    /\ UNCHANGED <<ret, destination, otherVars>>

\* One call of extract_to and its `?`.
Extract(world, label, v, dir, next) ==
    \E r \in ExtractTo(world, v) :
        /\ extracted' = Append(extracted,
                [world |-> label, keys |-> DOMAIN world.versions, version |-> v,
                 dir |-> dir, transition |-> transition, ok |-> r.ok])
        /\ IF r.ok
           THEN /\ tmpdirs' = [tmpdirs EXCEPT ![dir] = r.value]
                /\ pc' = next
                /\ UNCHANGED <<from_tmpdir, to_tmpdir, built>>
           ELSE Abort(r.err)

\* if let Some(from_version) = from_version { from_world.extract_to(..).await?; }
DvExtractFrom ==
    /\ pc = "dv_extract_from"
    /\ IF IsSome(previous_version)
       THEN Extract(from_world, IF branch = "added" THEN "new" ELSE "old",
                    Unwrap(previous_version), Unwrap(from_tmpdir), "dv_extract_to")
       ELSE /\ pc' = "dv_extract_to"
            /\ UNCHANGED <<tmpdirs, from_tmpdir, to_tmpdir, built, extracted>>
    /\ UNCHANGED <<branch, pending, previous_version, version, candidate_versions, diffs,
                   created, transition, diff>>
    /\ UNCHANGED <<ret, destination, otherVars>>

\* if let Some(to_version) = to_version { to_world.extract_to(..).await?; }
DvExtractTo ==
    /\ pc = "dv_extract_to"
    /\ IF IsSome(version)
       THEN Extract(to_world, "new", Unwrap(version), Unwrap(to_tmpdir), "dv_diff_dir")
       ELSE /\ pc' = "dv_diff_dir"
            /\ UNCHANGED <<tmpdirs, from_tmpdir, to_tmpdir, built, extracted>>
    /\ UNCHANGED <<branch, pending, previous_version, version, candidate_versions, diffs,
                   created, transition, diff>>
    /\ UNCHANGED <<ret, destination, otherVars>>

\* let diff = diff_dir(from_tmpdir.path(), to_tmpdir.path())?;
DvDiffDir ==
    /\ pc = "dv_diff_dir"
    /\ \E out \in diff_dir(tmpdirs[Unwrap(from_tmpdir)], tmpdirs[Unwrap(to_tmpdir)]) :
            diff' = Some(out)
    /\ pc' = "dv_return"
    /\ UNCHANGED <<branch, pending, previous_version, version, candidate_versions, diffs,
                   tmpdirs, created, transition, from_tmpdir, to_tmpdir, extracted, built>>
    /\ UNCHANGED <<ret, destination, otherVars>>

\* Ok(diff): diff_version returns, its directories are dropped, and the
\* caller inserts the entry and moves on.
DvReturn ==
    /\ pc = "dv_return"
    /\ tmpdirs' = Drop(tmpdirs, Owned)
    /\ from_tmpdir' = None /\ to_tmpdir' = None
    /\ diffs' = Insert(diffs, VersionRange(previous_version, version),
                       VersionAdded(Unwrap(diff)))
    /\ diff' = None
    /\ IF branch = "added"
       THEN /\ previous_version' = version
            /\ pc' = "added_loop"
            /\ UNCHANGED candidate_versions
       ELSE /\ candidate_versions' = Append(candidate_versions, Unwrap(version))
            /\ pc' = "changed_loop"
            /\ UNCHANGED previous_version
    /\ UNCHANGED <<branch, pending, version, created, transition, extracted, built>>
    /\ UNCHANGED <<ret, destination, otherVars>>

\* diff_world(..).await? on an error
WriteErr ==
    /\ pc = "built" /\ ~Unwrap(built).ok
    /\ ret' = built
    /\ pc' = "done"
    /\ UNCHANGED destination
    /\ UNCHANGED <<diffWorldVars, otherVars>>

\* std::fs::create_dir_all(destination)?
WriteCreateDir ==
    /\ pc = "built" /\ Unwrap(built).ok
    /\ \/ /\ destination' = (IF IsSome(destination) THEN destination ELSE Some(EmptyDir))
          /\ pc' = "write"
          /\ UNCHANGED ret
       \/ /\ ret' = Some(Err("io"))
          /\ pc' = "done"
          /\ UNCHANGED destination
    /\ UNCHANGED <<diffWorldVars, otherVars>>

\* serialize the diff and std::fs::write(file_path, out)?
WriteFile ==
    /\ pc = "write"
    /\ LET cd == Unwrap(built).value IN
       \/ /\ destination' = Some(Insert(Unwrap(destination), ApdiffName(cd.world_name), ToJson(cd)))
          /\ ret' = Some(Ok(<<>>))
       \/ /\ ret' = Some(Err("io"))
          /\ UNCHANGED destination
    /\ pc' = "done"
    /\ UNCHANGED <<diffWorldVars, otherVars>>

(***************************************************************************)
(* The entry points exercised on their own                                 *)
(***************************************************************************)
Option(S) == {None} \cup { Some(x) : x \in S }

\* Every VersionRange value over the versions of the model.
Ranges == { VersionRange(a, b) : a \in Option(Versions), b \in Option(Versions) }

\* Texts that no VersionRange serializes to, next to those that one does.
Texts ==
    LET strs == { VersionToString(v) : v \in Versions } IN
    { <<>>, Separator, Separator \o Separator, <<".", ".">>, <<".", ".", ".", ".">>,
      <<"0", "1", ".", "0", ".", "0">> \o Separator,
      Separator \o <<"1", ".", "0">>,
      <<"a">> \o Separator \o <<"b">> }
    \cup strs
    \cup { a \o <<".">> \o Separator \o a : a \in strs }
    \cup { a \o Separator \o a \o Separator : a \in strs }

\* serde_json::to_string(&range)
SerializeRange ==
    /\ op = "serde" /\ range # None /\ text = None
    /\ text' = Some(Serialize(Unwrap(range)))
    /\ UNCHANGED <<op, range, parsed, buildVars, closestVars, dirVars>>

\* serde_json::from_str::<VersionRange>(&text)
DeserializeText ==
    /\ op = "serde" /\ text # None /\ parsed = None
    /\ parsed' = Some(Deserialize(Unwrap(text)))
    /\ UNCHANGED <<op, range, text, buildVars, closestVars, dirVars>>

\* find_closest_version(target_version, versions)
FindClosest ==
    /\ op = "closest" /\ fc_result = None
    /\ fc_result' = Some(find_closest_version(Unwrap(fc_target), fc_versions))
    /\ UNCHANGED <<op, fc_target, fc_versions, buildVars, serdeVars, dirVars>>

\* diff_dir(from, to), run again on the same two trees
DiffDir ==
    /\ op = "diff_dir" /\ Len(dd_out) < MaxRuns
    /\ \E order \in Orders(CombinedPaths(dd_from, dd_to)) :
          /\ dd_out' = Append(dd_out, ConcatDiffs(dd_from, dd_to, order))
          /\ dd_log' = LoopLog(dd_from, dd_to, order)
    /\ UNCHANGED <<op, dd_from, dd_to, buildVars, serdeVars, closestVars>>

\* File contents and trees diff_dir is run on.
Contents ==
    { TextFile(<<>>), TextFile(<<"x">>), TextFile(<<"x", "y">>), TextFile(<<"y">>),
      BinaryFile }
TreePaths == {"a.py", "b/c.py"}
Trees == UNION { [P -> Contents] : P \in SUBSET TreePaths }

noSerde == range = None /\ text = None /\ parsed = None
noClosest == fc_target = None /\ fc_versions = <<>> /\ fc_result = None
noDiffDir == dd_from = EmptyTree /\ dd_to = EmptyTree /\ dd_out = <<>> /\ dd_log = <<>>

InitBuild ==
    /\ op = "build"
    /\ from \in Option({ World(Ascending(S)) : S \in { T \in SUBSET Versions : Cardinality(T) <= MaxVersions } })
    /\ \E ins \in Option(InsertionSeqs(MaxVersions)) :
          /\ to = (IF IsSome(ins) THEN Some(World(Unwrap(ins))) ELSE None)
          /\ inserted = (IF IsSome(ins) THEN Unwrap(ins) ELSE <<>>)
    /\ pc = "start" /\ branch = "none" /\ pending = <<>>
    /\ previous_version = None /\ version = None /\ candidate_versions = <<>>
    /\ diffs = EmptyDiffs /\ tmpdirs = <<>> /\ created = <<>> /\ transition = 0
    /\ from_tmpdir = None /\ to_tmpdir = None /\ diff = None /\ extracted = <<>>
    /\ built = None /\ ret = None /\ destination = None
    /\ noSerde /\ noClosest /\ noDiffDir

InitSerde ==
    /\ op = "serde"
    /\ \/ range \in { Some(r) : r \in Ranges } /\ text = None
       \/ range = None /\ text \in { Some(t) : t \in Texts }
    /\ parsed = None
    /\ idle /\ noClosest /\ noDiffDir

InitClosest ==
    /\ op = "closest"
    /\ fc_target \in { Some(v) : v \in Versions }
    /\ fc_versions \in InsertionSeqs(MaxVersions)
    /\ fc_result = None
    /\ idle /\ noSerde /\ noDiffDir

InitDiffDir ==
    /\ op = "diff_dir"
    /\ dd_from \in Trees /\ dd_to \in Trees /\ dd_out = <<>> /\ dd_log = <<>>
    /\ idle /\ noSerde /\ noClosest

Init == InitBuild \/ InitSerde \/ InitClosest \/ InitDiffDir

Next ==
    \/ MatchNone \/ MatchAdded \/ MatchRemoved \/ MatchChanged
    \/ AddedNext \/ AddedDone \/ ChangedSkip \/ ChangedNext \/ ChangedDone
    \/ DvFromTmpdir \/ DvToTmpdir \/ DvExtractFrom \/ DvExtractTo
    \/ DvDiffDir \/ DvReturn
    \/ WriteErr \/ WriteCreateDir \/ WriteFile
    \/ SerializeRange \/ DeserializeText \/ FindClosest \/ DiffDir

Spec == Init /\ [][Next]_vars

(***************************************************************************)
(* Properties                                                              *)
(***************************************************************************)
Below(S, t) == { c \in S : VersionLess(c, t) }
Greatest(S) == CHOOSE m \in S : \A x \in S : x = m \/ VersionLess(x, m)
\* max{c in S : c < t}, or absent
Predecessor(S, t) == IF Below(S, t) = {} THEN None ELSE Some(Greatest(Below(S, t)))

OldVersions == DOMAIN old_world.versions
NewVersions == DOMAIN new_world.versions
Returned == built # None
ReturnedOk == built # None /\ Unwrap(built).ok
ResultDiffs == Unwrap(built).value.diffs
FailedExtracts == { i \in 1..Len(extracted) : ~extracted[i].ok }

\* C1: in the Changed case the returned record holds exactly one VersionAdded
\* entry (greatest old version below v, v) per version v of new that old
\* lacks and one VersionRemoved entry (v, absent) per version of old that new
\* lacks, and nothing else.
C1_ChangedEntries ==
    (ReturnedOk /\ from # None /\ to # None) =>
        LET added == NewVersions \ OldVersions
            removed == OldVersions \ NewVersions
        IN /\ DOMAIN ResultDiffs =
                { VersionRange(Predecessor(OldVersions, v), Some(v)) : v \in added }
                \cup { VersionRange(Some(v), None) : v \in removed }
           /\ \A v \in added :
                ResultDiffs[VersionRange(Predecessor(OldVersions, v), Some(v))].tag = "VersionAdded"
           /\ \A v \in removed : ResultDiffs[VersionRange(Some(v), None)] = VersionRemoved
           /\ Cardinality(DOMAIN ResultDiffs) = Cardinality(added) + Cardinality(removed)

\* A Changed build has returned; a version was added, one was removed, and an
\* added version sits between another added version and its old predecessor.
C1_Witness ==
    /\ ReturnedOk /\ from # None /\ to # None
    /\ OldVersions \ NewVersions # {}
    /\ \E v, w \in NewVersions \ OldVersions :
          /\ VersionLess(w, v)
          /\ Below(OldVersions, v) # {}
          /\ VersionLess(Greatest(Below(OldVersions, v)), w)

\* C2: in the Added case the returned record holds exactly one entry per
\* version of new, all VersionAdded, each keyed by the version's immediate
\* predecessor among the versions of new (absent for the least one).
C2_AddedChain ==
    (ReturnedOk /\ from = None /\ to # None /\ NewVersions # {}) =>
        /\ DOMAIN ResultDiffs =
              { VersionRange(Predecessor(NewVersions, v), Some(v)) : v \in NewVersions }
        /\ \A k \in DOMAIN ResultDiffs : ResultDiffs[k].tag = "VersionAdded"
        /\ Cardinality(DOMAIN ResultDiffs) = Cardinality(NewVersions)

\* An Added build of three versions inserted out of order has returned.
C2_Witness ==
    /\ ReturnedOk /\ from = None /\ to # None
    /\ Len(inserted) = 3
    /\ VersionLess(inserted[3], inserted[2]) /\ VersionLess(inserted[1], inserted[3])

\* C3: in the Removed case the build creates no temporary directory and
\* materializes nothing, and it returns exactly one payload-free
\* VersionRemoved entry (v, absent) per version of old.
C3_RemovedEntries ==
    (op = "build" /\ from # None /\ to = None) =>
        /\ created = <<>> /\ extracted = <<>> /\ tmpdirs = <<>>
        /\ Returned =>
              /\ ReturnedOk
              /\ DOMAIN ResultDiffs = { VersionRange(Some(v), None) : v \in OldVersions }
              /\ \A k \in DOMAIN ResultDiffs : ResultDiffs[k] = VersionRemoved
              /\ Cardinality(DOMAIN ResultDiffs) = Cardinality(OldVersions)

\* A Removed build of a world of several versions has returned.
C3_Witness ==
    /\ ReturnedOk /\ from # None /\ to = None
    /\ Cardinality(OldVersions) >= 2

\* C4: find_closest_version returns the greatest candidate strictly below
\* the target, absent exactly when there is none, and never a candidate that
\* is not below the target.
C4_ClosestPredecessor ==
    (op = "closest" /\ fc_result # None) =>
        LET T == Unwrap(fc_target)
            S == SetOf(fc_versions)
            r == Unwrap(fc_result)
        IN /\ r = Predecessor(S, T)
           /\ (r = None) <=> (\A c \in S : ~VersionLess(c, T))
           /\ IsSome(r) => Unwrap(r) \in S /\ VersionLess(Unwrap(r), T) /\ Unwrap(r) # T

\* The target is among the candidates, which are given out of order, and a
\* predecessor was found.
C4_Witness ==
    /\ op = "closest" /\ fc_result # None
    /\ Unwrap(fc_target) \in SetOf(fc_versions)
    /\ Len(fc_versions) = 3 /\ VersionLess(fc_versions[2], fc_versions[1])
    /\ IsSome(Unwrap(fc_result))

\* C5: deserializing the text a VersionRange serializes to yields that
\* VersionRange, absent endpoints included.
C5_RoundTrip ==
    (op = "serde" /\ range # None /\ parsed # None) => Unwrap(parsed) = Ok(Unwrap(range))

\* A range from nothing to a pre-release version went through both steps.
C5_Witness ==
    /\ op = "serde" /\ parsed # None
    /\ range = Some(VersionRange(None, Some(V(0, 1, 0, <<"a">>))))

\* C6: once an extract_to has failed it is the last materialization, no
\* further transition starts and nothing is diffed, the build returns that
\* error and no record, and the destination is neither created nor written.
C6_FailFast ==
    FailedExtracts # {} =>
        /\ FailedExtracts = {Len(extracted)}
        /\ extracted[Len(extracted)].transition = transition
        /\ built = Some(Err("extract_to"))
        /\ pc \in {"built", "done"}
        /\ diff = None
        /\ destination = None
        /\ ret # None => ret = Some(Err("extract_to"))

\* A later transition failed to materialize after an entry had been
\* computed, and diff_world_and_write has returned.
C6_Witness ==
    /\ FailedExtracts # {} /\ pc = "done"
    /\ transition >= 2 /\ DOMAIN diffs # {}

BothAbsent == from = None /\ to = None

\* C7 as stated: build(absent, absent) fails with InvalidInput having done no
\* work, and with a world present and every extract_to succeeding the build
\* returns a record.
C7_OnlyInvalidInputFails ==
    (op = "build" /\ Returned) =>
        /\ BothAbsent =>
              /\ built = Some(Err("InvalidInput"))
              /\ created = <<>> /\ extracted = <<>> /\ transition = 0
              /\ destination = None
        /\ (~BothAbsent /\ FailedExtracts = {}) => ReturnedOk

\* C7 amended: as stated, but with a world present the build returns a record
\* when every extract_to and every creation of a temporary directory succeeds:
\* a failed build then returns the error of the one or of the other.
C7_InvalidInputOrIoFails ==
    (op = "build" /\ Returned) =>
        /\ BothAbsent =>
              /\ built = Some(Err("InvalidInput"))
              /\ created = <<>> /\ extracted = <<>> /\ transition = 0
              /\ destination = None
        /\ (~BothAbsent /\ ~ReturnedOk) =>
              \/ built = Some(Err("extract_to")) /\ FailedExtracts # {}
              \/ built = Some(Err("tempdir")) /\ FailedExtracts = {}

\* diff_world_and_write has returned the InvalidInput error.
C7_Witness ==
    /\ op = "build" /\ BothAbsent /\ pc = "done"
    /\ ret = Some(Err("InvalidInput"))

InDiffVersion == pc \in {"dv_from_tmpdir", "dv_to_tmpdir", "dv_extract_from",
                         "dv_extract_to", "dv_diff_dir", "dv_return"}
Materializing == pc \in {"dv_extract_from", "dv_extract_to", "dv_diff_dir", "dv_return"}

\* C8: the temporary directories that exist are those of the running
\* transition, created by it; past their creation there are two of them; each
\* receives at most one version, from its own transition; the directory of an
\* absent endpoint stays empty; and none exists outside a transition.
C8_ScopedTmpdirs ==
    /\ DOMAIN tmpdirs = Owned
    /\ \A d \in DOMAIN tmpdirs : created[d].transition = transition
    /\ ~InDiffVersion => DOMAIN tmpdirs = {}
    /\ Materializing =>
          /\ from_tmpdir # None /\ to_tmpdir # None /\ from_tmpdir # to_tmpdir
          /\ { d \in 1..Len(created) : created[d].transition = transition } = Owned
    /\ \A i \in 1..Len(extracted) :
          /\ created[extracted[i].dir].transition = extracted[i].transition
          /\ \A j \in 1..Len(extracted) : extracted[i].dir = extracted[j].dir => i = j
    /\ (pc = "dv_diff_dir" /\ previous_version = None) =>
          tmpdirs[Unwrap(from_tmpdir)] = EmptyTree

\* A build is over whose second transition failed to materialize its to side:
\* four directories were created and none is left.
C8_Witness ==
    /\ pc = "done" /\ Len(created) = 4 /\ tmpdirs = <<>>
    /\ FailedExtracts # {}
    /\ extracted[Len(extracted)].dir = 4

\* C9: two runs of diff_dir on the same two trees return the same text.
C9_Deterministic ==
    \A i, j \in 1..Len(dd_out) : dd_out[i] = dd_out[j]

BothEndsAbsent(r) == r[1] = None /\ r[2] = None

\* C10: no VersionRange with both endpoints absent is constructed, neither
\* as a key of the record a build fills nor by deserializing a text.
C10_NeverBothAbsent ==
    /\ \A k \in DOMAIN diffs : ~BothEndsAbsent(k)
    /\ (parsed # None /\ Unwrap(parsed).ok) => ~BothEndsAbsent(Unwrap(parsed).value)

\* The text of a file's lines, each behind the same prefix.
RECURSIVE PrefixedLines(_, _)
PrefixedLines(prefix, lines) ==
    IF lines = <<>> THEN ""
    ELSE prefix \o Head(lines) \o "\n" \o PrefixedLines(prefix, Tail(lines))

\* The block of a file that only the to tree has: the from header is
\* /dev/null and the hunk holds additions only.
AddedBlock(file, lines) ==
    "--- /dev/null\n+++ " \o file \o "\n@@ -0,0 +" \o HunkRange(Len(lines)) \o " @@\n"
        \o PrefixedLines("+", lines)

\* The block of a file that only the from tree has: the to header is
\* /dev/null and the hunk holds removals only.
RemovedBlock(file, lines) ==
    "--- " \o file \o "\n+++ /dev/null\n@@ -" \o HunkRange(Len(lines)) \o " +0,0 @@\n"
        \o PrefixedLines("-", lines)

RECURSIVE LogText(_)
LogText(log) == IF log = <<>> THEN "" ELSE Head(log).text \o LogText(Tail(log))

DiffDirRan == op = "diff_dir" /\ dd_out # <<>>
OnlyInTo(file) == file \in DOMAIN dd_to /\ file \notin DOMAIN dd_from
OnlyInFrom(file) == file \in DOMAIN dd_from /\ file \notin DOMAIN dd_to

\* What C11 says of every run whatever the files hold: the loop handles
\* exactly the union of the paths of both trees, each once; the label of a
\* side is the path when the side has the file and /dev/null when not; a path
\* with equal contents contributes the empty string; the result is the
\* concatenation of the blocks.
C11_UnionLabelsEqual ==
    /\ { dd_log[i].file : i \in 1..Len(dd_log) } = DOMAIN dd_from \cup DOMAIN dd_to
    /\ Len(dd_log) = Cardinality(DOMAIN dd_from \cup DOMAIN dd_to)
    /\ dd_out[Len(dd_out)] = LogText(dd_log)
    /\ \A i \in 1..Len(dd_log) :
          LET b == dd_log[i] IN
          /\ b.from = (IF b.file \in DOMAIN dd_from THEN b.file ELSE "/dev/null")
          /\ b.to = (IF b.file \in DOMAIN dd_to THEN b.file ELSE "/dev/null")
          /\ ReadToString(dd_from, b.file) = ReadToString(dd_to, b.file) => b.text = ""

\* C11 as stated: besides the above, every file that only the to tree has
\* gets a block with the from header /dev/null and additions only, and every
\* file that only the from tree has one with the to header /dev/null and
\* removals only.
C11_OneSidedFilesGetBlocks ==
    DiffDirRan =>
        /\ C11_UnionLabelsEqual
        /\ \A i \in 1..Len(dd_log) :
              LET b == dd_log[i] IN
              /\ OnlyInTo(b.file) => b.text = AddedBlock(b.file, ReadToString(dd_to, b.file))
              /\ OnlyInFrom(b.file) => b.text = RemovedBlock(b.file, ReadToString(dd_from, b.file))

\* C11 amended: the one-sided blocks are those of the files that hold text,
\* at least one line of it; an empty or unreadable file that one tree alone
\* has reads as empty on both sides and contributes the empty string.
C11_OneSidedTextFilesGetBlocks ==
    DiffDirRan =>
        /\ C11_UnionLabelsEqual
        /\ \A i \in 1..Len(dd_log) :
              LET b == dd_log[i] IN
              /\ (OnlyInTo(b.file) /\ ReadToString(dd_to, b.file) # <<>>) =>
                    b.text = AddedBlock(b.file, ReadToString(dd_to, b.file))
              /\ (OnlyInFrom(b.file) /\ ReadToString(dd_from, b.file) # <<>>) =>
                    b.text = RemovedBlock(b.file, ReadToString(dd_from, b.file))
              /\ (OnlyInTo(b.file) /\ ReadToString(dd_to, b.file) = <<>>) => b.text = ""
              /\ (OnlyInFrom(b.file) /\ ReadToString(dd_from, b.file) = <<>>) => b.text = ""

\* A run on two trees where one file of two lines is only in the to tree and
\* another file, with text, only in the from tree.
C11_Witness ==
    /\ DiffDirRan
    /\ \E f, g \in TreePaths :
          /\ OnlyInTo(f) /\ Len(ReadToString(dd_to, f)) = 2
          /\ OnlyInFrom(g) /\ ReadToString(dd_from, g) # <<>>

\* The side of its transition an extract_to call filled.
Side(i) == created[extracted[i].dir].side
FromOk(t) == \E i \in 1..Len(extracted) :
                extracted[i].transition = t /\ Side(i) = "from" /\ extracted[i].ok
ToOk(t) == \E i \in 1..Len(extracted) :
              extracted[i].transition = t /\ Side(i) = "to" /\ extracted[i].ok

\* C12: the transitions of a build run one at a time in ascending order of
\* their target; within one the from side is materialized, with success,
\* before the to side, and a failed from side leaves the to side untouched;
\* the comparison starts after both; and a transition starts materializing
\* only when every earlier one has its diff computed and recorded.
C12_Sequential ==
    op = "build" =>
        /\ InDiffVersion =>
              /\ \A p \in SetOf(pending) : VersionLess(Unwrap(version), p)
              /\ \A k \in DOMAIN diffs :
                    IsSome(k[2]) => VersionLess(Unwrap(k[2]), Unwrap(version))
              /\ Cardinality(DOMAIN diffs) = transition - 1
              /\ (diff # None) <=> (pc = "dv_return")
        /\ \A i, j \in 1..Len(extracted) :
              /\ i < j => extracted[i].transition <= extracted[j].transition
              /\ (i < j /\ Side(i) = "to" /\ Side(j) = "to") =>
                    VersionLess(extracted[i].version, extracted[j].version)
              /\ (extracted[i].transition = extracted[j].transition
                    /\ Side(i) = "from" /\ Side(j) = "to") => (i < j /\ extracted[i].ok)
        /\ pc \in {"dv_diff_dir", "dv_return"} =>
              /\ ToOk(transition)
              /\ IsSome(previous_version) => FromOk(transition)
        /\ pc = "dv_extract_to" =>
              /\ IsSome(previous_version) => FromOk(transition)
              /\ \A i \in 1..Len(extracted) :
                    extracted[i].transition = transition => Side(i) = "from"

\* A build is over whose third transition failed on its from side, after the
\* first materialized a to side only and the second both sides.
C12_Witness ==
    /\ op = "build" /\ pc = "done" /\ transition = 3
    /\ Len(extracted) = 4
    /\ Side(4) = "from" /\ ~extracted[4].ok

\* C13: every extract_to call names a version the world it is issued to
\* knows; in the Added case both sides go to the new world; in the Changed
\* case the from side goes to the old world and the to side to the new world,
\* for a version the old world lacks.
C13_KnownVersionsOnly ==
    \A i \in 1..Len(extracted) :
        LET e == extracted[i] IN
        /\ e.version \in e.keys
        /\ e.keys = (IF e.world = "old" THEN OldVersions ELSE NewVersions)
        /\ branch \in {"added", "changed"}
        /\ branch = "added" => e.world = "new"
        /\ branch = "changed" =>
              /\ Side(i) = "from" => e.world = "old"
              /\ Side(i) = "to" => e.world = "new" /\ e.version \notin OldVersions

\* A Changed build has materialized a version of the old world and a version
\* that only the new world has.
C13_Witness ==
    /\ branch = "changed" /\ pc = "done"
    /\ \E i, j \in 1..Len(extracted) :
          /\ Side(i) = "from" /\ extracted[i].ok
          /\ Side(j) = "to" /\ extracted[j].ok

====
